---- MODULE Spec2Model ----
(***************************************************************************)
(* Model of the Polygon problem builder: the build pipeline of             *)
(* src/src/build.py driving the remote service through                     *)
(* src/src/polygon_methods.py and src/src/polygon_api.py.                  *)
(*                                                                         *)
(* Every HTTP round trip is one atomic step of a run; several runs (one    *)
(* process each) share only the remote account.                            *)
(***************************************************************************)
EXTENDS Naturals, Sequences, FiniteSets, TLC

\* ------------------------------------------------------------------ bounds
MaxRuns == 2

Runs == 1..MaxRuns

\* polygon_name values the problem definitions may carry
Names == {"two-sum"}

\* statement.language values the problem definitions may carry
Languages == {"english", "french"}

\* ------------------------------------------------------------ python values
\* Python's None, and a present value, as a sequence of length 0 or 1.
None == << >>

Some(x) == <<x>>

\* Python truthiness of an optional integer: None and 0 are falsy.
Truthy(v) == v /= None /\ v[1] /= 0

\* ------------------------------------------------------------- exceptions
\* An exception: its class and its message, the message as a list of words.
Exc(type, msg) == [type |-> type, msg |-> msg]

\* class BuildError(RuntimeError): the only class `except BuildError` catches.
IsBuildError(exc) == exc.type = "BuildError"

\* str.lower() on one word of a message
LowerWord(w) ==
    CASE w = "Problem" -> "problem"
      [] w = "Not"     -> "not"
      [] w = "Found"   -> "found"
      [] w = "Application/JSON" -> "application/json"
      [] OTHER         -> w

lower(text) == [i \in DOMAIN text |-> LowerWord(text[i])]

\* Python's `pat in text` on word lists
Contains(text, pat) ==
    \E i \in 1..Len(text) :
        /\ i + Len(pat) - 1 <= Len(text)
        /\ SubSeq(text, i, i + Len(pat) - 1) = pat

_is_not_found(err) ==
    LET text == lower(err.msg)
    IN  Contains(text, <<"not", "found">>) \/ Contains(text, <<"does", "not", "exist">>)

\* ---------------------------------------------------------- method registry
METHODS ==
    [ list_problems           |-> <<"problems.list", TRUE>>,
      create_problem          |-> <<"problem.create", TRUE>>,
      problem_info            |-> <<"problem.info", TRUE>>,
      update_info             |-> <<"problem.updateInfo", TRUE>>,
      commit_changes          |-> <<"problem.commitChanges", TRUE>>,
      update_working_copy     |-> <<"problem.updateWorkingCopy", TRUE>>,
      discard_working_copy    |-> <<"problem.discardWorkingCopy", TRUE>>,
      save_tags               |-> <<"problem.saveTags", TRUE>>,
      statements              |-> <<"problem.statements", TRUE>>,
      save_statement          |-> <<"problem.saveStatement", TRUE>>,
      statement_resources     |-> <<"problem.statementResources", TRUE>>,
      save_statement_resource |-> <<"problem.saveStatementResource", TRUE>>,
      files                   |-> <<"problem.files", TRUE>>,
      save_file               |-> <<"problem.saveFile", TRUE>>,
      view_file               |-> <<"problem.viewFile", TRUE>>,
      checker                 |-> <<"problem.checker", TRUE>>,
      set_checker             |-> <<"problem.setChecker", TRUE>>,
      validator               |-> <<"problem.validator", TRUE>>,
      set_validator           |-> <<"problem.setValidator", TRUE>>,
      solutions               |-> <<"problem.solutions", TRUE>>,
      save_solution           |-> <<"problem.saveSolution", TRUE>>,
      script                  |-> <<"problem.script", TRUE>>,
      save_script             |-> <<"problem.saveScript", TRUE>>,
      tests                   |-> <<"problem.tests", TRUE>>,
      save_test               |-> <<"problem.saveTest", TRUE>>,
      test_input              |-> <<"problem.testInput", TRUE>>,
      test_answer             |-> <<"problem.testAnswer", TRUE>>,
      validator_tests         |-> <<"problem.validatorTests", TRUE>>,
      save_validator_test     |-> <<"problem.saveValidatorTest", TRUE>>,
      checker_tests           |-> <<"problem.checkerTests", TRUE>>,
      save_checker_test       |-> <<"problem.saveCheckerTest", TRUE>> ]

\* The outcome of a call: a returned value or a raised exception.
Return(v) == [raised |-> FALSE, value |-> v, exc |-> Exc("", << >>)]

Raise(e) == [raised |-> TRUE, value |-> None, exc |-> e]

\* Mutant: an entry is resolved whether confirmed or not.
get_method_in_lenient(methods, key) ==
    IF key \notin DOMAIN methods
    THEN Raise(Exc("KeyError", <<"Missing", "Polygon", "method", "name", "for:", key>>))
    ELSE Return(methods[key][1])

\* get_method's body, for the registry `methods`
get_method_in(methods, key) ==
    IF key \notin DOMAIN methods
    THEN Raise(Exc("KeyError", <<"Missing", "Polygon", "method", "name", "for:", key>>))
    ELSE IF ~methods[key][2]
         THEN Raise(Exc("RuntimeError",
                        <<"Polygon", "method", "name", "for", key, "is", "unconfirmed.",
                          "Assumed", methods[key][1]>>))
         ELSE Return(methods[key][1])

get_method(key) == get_method_in(METHODS, key)

\* Remote methods that change the remote account (the others only read it).
MutatingMethods ==
    {METHODS[k][1] : k \in {"create_problem", "update_info", "commit_changes",
                            "update_working_copy", "discard_working_copy", "save_tags",
                            "save_statement", "save_statement_resource", "save_file",
                            "set_checker", "set_validator", "save_solution",
                            "save_script", "save_test", "save_validator_test",
                            "save_checker_test"}}
    \cup {"problem.buildPackage"}

\* ------------------------------------------------------------------ state
VARIABLES
    remote,       \* the remote account: polygon_name -> ids of its problems, in list order
    pc,           \* each run's position in build()
    cfg,          \* each run's loaded problem definition
    dry_run,      \* each run's --dry-run flag
    state,        \* each run's build state, {"problem_id": ...}
    calls,        \* each run's HTTP requests so far, with their outcomes
    out,          \* each run's stage markers printed so far
    failure,      \* each run's BuildError raised by _stage, if any
    exit_status,  \* each run's process exit status, once exited
    seen,         \* history: the remote problems of the run's name when it started
    overlap,      \* history: some run started while another was still running
    plan,         \* each run's _stage calls in order: build()'s, or the one stage under test
    locals,       \* each run's local variables of the stage body it is in
    probe         \* the call under test, in a test of _call or of the signing alone

vars == <<remote, pc, cfg, dry_run, state, calls, out, failure, exit_status, seen, overlap,
          plan, locals, probe>>

\* ------------------------------------------------------------- API client
\* Failures polygon_api_call raises for a non-OK envelope: RuntimeError with
\* the envelope's comment.
ApiFailures ==
    { Exc("RuntimeError", <<"Problem", "not", "found">>),
      Exc("RuntimeError", <<"permission", "denied">>) }

\* One request as the remote saw it, with what the client made of the answer.
Request(method, params, resp) == [method |-> method, params |-> params, resp |-> resp]

\* problems.list: the problems of that name, or a failure.
polygon_api_call_list(name) ==
    {Return(remote[name])} \cup {Raise(e) : e \in ApiFailures}

\* The id the remote gives its next problem.
NewId == 1 + Cardinality(UNION {{remote[n][i] : i \in DOMAIN remote[n]} : n \in Names})

\* ---------------------------------------------------------- polygon_methods
\* Mutant: the lookup reports "absent" whatever the remote lists.
PL_check_problem_exists_blind(resp) ==
    IF resp.raised THEN resp ELSE Return(None)

\* PL_check_problem_exists on the answer resp of problems.list
PL_check_problem_exists(resp) ==
    IF resp.raised THEN resp
    ELSE IF Len(resp.value) = 0 THEN Return(None)
         ELSE Return(Some(resp.value[1]))

\* Mutant: the creation guard never fires.
PL_create_problem_unguarded(found) == FALSE

\* Mutant: the creation guard always fires.
PL_create_problem_always(found) == TRUE

\* PL_create_problem's guard: the recheck found a problem
PL_create_problem_exists(found) == Truthy(found)

\* PL_create_problem on the answer resp of problem.create
PL_create_problem(resp) ==
    IF resp.raised THEN resp
    ELSE IF resp.value = None
         THEN Raise(Exc("RuntimeError", <<"Failed", "to", "create", "problem">>))
         ELSE Return(resp.value)

\* --------------------------------------------------------------- the stages
StageTitle(number) ==
    CASE number = 1 -> "Problem init (by polygon_id)"
      [] number = 2 -> "Basic settings"
      [] number = 3 -> "English statement"
      [] number = 4 -> "Checker"
      [] number = 5 -> "Validator"
      [] number = 6 -> "Main solution"
      [] number = 7 -> "Manual_Tests"
      [] number = 8 -> "Generated_Tests"
      [] number = 9 -> "commit and Package"

\* The _stage calls build() makes, in order.
BuildStages == <<1, 9>>

\* Where a stage's body starts.
StageEntry(number) ==
    CASE number = 1 -> "lookup"
      [] number = 2 -> "update_info"
      [] number = 6 -> "save_solution"
      [] number = 7 -> "script"
      [] number = 8 -> "generators"
      [] number = 9 -> "commit"

Marker(kind, number) == [kind |-> kind, number |-> number, title |-> StageTitle(number)]

\* The position of a stage among the run's _stage calls.
StageIndex(r, number) == CHOOSE i \in DOMAIN plan[r] : plan[r][i] = number

\* A stage body's local variables before it has assigned any.
\* (stage8's `script_cmd = ""` and `cnt = 1` are its fields script and cnt.)
NoLocals == [script_cmd |-> None, samples |-> << >>, idx |-> 0, cnt |-> 1, script |-> << >>]

\* _stage: the body returned. Print the DONE marker; build() starts the next
\* stage, or calls exit(0) after the last one.
_stage_done(r, number) ==
    LET i == StageIndex(r, number)
    IN  IF i < Len(plan[r])
        THEN /\ out' = [out EXCEPT ![r] = @ \o <<Marker("DONE", number),
                                                  Marker("START", plan[r][i + 1])>>]
             /\ pc' = [pc EXCEPT ![r] = StageEntry(plan[r][i + 1])]
             /\ UNCHANGED <<failure, exit_status>>
        ELSE /\ out' = [out EXCEPT ![r] = Append(@, Marker("DONE", number))]
             /\ pc' = [pc EXCEPT ![r] = "exited"]
             /\ exit_status' = [exit_status EXCEPT ![r] = Some(0)]
             /\ UNCHANGED failure

\* Mutant: the failure is recorded but the pipeline goes on with the next stage.
_stage_except_continue(r, number, exc) ==
    LET i == StageIndex(r, number)
    IN  /\ failure' = [failure EXCEPT ![r] =
                          Some([type |-> "BuildError", number |-> number,
                                title |-> StageTitle(number), cause |-> exc])]
        /\ IF i < Len(plan[r])
           THEN /\ out' = [out EXCEPT ![r] = Append(@, Marker("START", plan[r][i + 1]))]
                /\ pc' = [pc EXCEPT ![r] = StageEntry(plan[r][i + 1])]
                /\ UNCHANGED exit_status
           ELSE /\ pc' = [pc EXCEPT ![r] = "exited"]
                /\ exit_status' = [exit_status EXCEPT ![r] = Some(1)]
                /\ UNCHANGED out

\* Mutant: the body's exception leaves _stage as it was raised.
_stage_except_unwrapped(r, number, exc) ==
    /\ failure' = [failure EXCEPT ![r] =
                      Some([type |-> exc.type, number |-> number,
                            title |-> StageTitle(number), cause |-> exc])]
    /\ pc' = [pc EXCEPT ![r] = "exited"]
    /\ exit_status' = [exit_status EXCEPT ![r] = Some(1)]
    /\ UNCHANGED out

\* _stage: the body raised exc. Raise BuildError("STAGE n: title FAILED: exc"),
\* which leaves build() and which main() turns into SystemExit(message).
_stage_except(r, number, exc) ==
    /\ failure' = [failure EXCEPT ![r] =
                      Some([type |-> "BuildError", number |-> number,
                            title |-> StageTitle(number), cause |-> exc])]
    /\ pc' = [pc EXCEPT ![r] = "exited"]
    /\ exit_status' = [exit_status EXCEPT ![r] = Some(1)]
    /\ UNCHANGED out

\* The body goes on to its next step.
Goto(r, label) ==
    /\ pc' = [pc EXCEPT ![r] = label]
    /\ UNCHANGED <<out, failure, exit_status>>

\* Mutant: the handler takes every exception for "the problem is absent".
stage1_except_any(exc) == TRUE

\* stage1's `except BuildError as exc`: TRUE when the handler takes the
\* exception for "the problem is absent", FALSE when the exception leaves stage1.
stage1_except(exc) == IsBuildError(exc) /\ _is_not_found(exc)

Running(r) == pc[r] \notin {"idle", "exited"}

InitBuild ==
    /\ remote \in [Names -> {<< >>, <<1>>}]
    /\ pc = [r \in Runs |-> "idle"]
    /\ cfg = [r \in Runs |-> [polygon_name |-> "", language |-> ""]]
    /\ dry_run = [r \in Runs |-> FALSE]
    /\ state = [r \in Runs |-> [problem_id |-> None]]
    /\ calls = [r \in Runs |-> << >>]
    /\ out = [r \in Runs |-> << >>]
    /\ failure = [r \in Runs |-> None]
    /\ exit_status = [r \in Runs |-> None]
    /\ seen = [r \in Runs |-> << >>]
    /\ overlap = FALSE
    /\ plan = [r \in Runs |-> BuildStages]
    /\ locals = [r \in Runs |-> NoLocals]

\* No function is under test in a run of main().
NoProbe == [op |-> "none"]

Init == InitBuild /\ probe = NoProbe

\* main() and the head of build(): load the definition, state = {"problem_id":
\* None}, and enter _stage(1, ...).
Main(r) ==
    /\ pc[r] = "idle"
    /\ \A q \in Runs : q < r => pc[q] /= "idle"
    /\ \E name \in Names, lang \in Languages, dry \in BOOLEAN :
          /\ cfg' = [cfg EXCEPT ![r] = [polygon_name |-> name, language |-> lang]]
          /\ dry_run' = [dry_run EXCEPT ![r] = dry]
          /\ seen' = [seen EXCEPT ![r] = remote[name]]
    /\ state' = [state EXCEPT ![r] = [problem_id |-> None]]
    /\ out' = [out EXCEPT ![r] = <<Marker("START", BuildStages[1])>>]
    /\ pc' = [pc EXCEPT ![r] = StageEntry(BuildStages[1])]
    /\ overlap' = (overlap \/ \E q \in Runs : Running(q))
    /\ UNCHANGED <<remote, calls, failure, exit_status, plan, locals, probe>>

\* stage1, the lookup: polygon_id = PL_check_problem_exists(polygon_name)
Stage1Lookup(r) ==
    /\ pc[r] = "lookup"
    /\ \E resp \in polygon_api_call_list(cfg[r].polygon_name) :
          LET res == PL_check_problem_exists(resp)
              exists == ~res.raised /\ res.value /= None
          IN  /\ calls' = [calls EXCEPT ![r] =
                              Append(@, Request("problems.list",
                                                [name |-> cfg[r].polygon_name], resp))]
              /\ IF res.raised /\ ~stage1_except(res.exc)
                 THEN /\ _stage_except(r, 1, res.exc)
                      /\ UNCHANGED state
                 ELSE IF exists
                      THEN /\ state' = [state EXCEPT ![r].problem_id = res.value]
                           /\ _stage_done(r, 1)
                      ELSE /\ Goto(r, "recheck")
                           /\ UNCHANGED state
    /\ UNCHANGED <<remote, cfg, dry_run, seen, overlap, plan, locals, probe>>

\* stage1, PL_create_problem's recheck: if PL_check_problem_exists(name): raise
Stage1Recheck(r) ==
    /\ pc[r] = "recheck"
    /\ \E resp \in polygon_api_call_list(cfg[r].polygon_name) :
          LET res == PL_check_problem_exists(resp)
          IN  /\ calls' = [calls EXCEPT ![r] =
                              Append(@, Request("problems.list",
                                                [name |-> cfg[r].polygon_name], resp))]
              /\ IF res.raised
                 THEN _stage_except(r, 1, res.exc)
                 ELSE IF PL_create_problem_exists(res.value)
                      THEN _stage_except(r, 1,
                              Exc("RuntimeError",
                                  <<"Problem", "with", "name", cfg[r].polygon_name,
                                    "already", "exists">>))
                      ELSE Goto(r, "create")
    /\ UNCHANGED <<remote, cfg, dry_run, state, seen, overlap, plan, locals, probe>>

\* problem.create for that name: the remote creates the problem and answers
\* with its id, or creates it and the answer is lost (requests raises a
\* timeout), or answers OK without a result, or fails. What it does to the account comes with each answer.
polygon_api_call_create(name) ==
    LET created == [remote EXCEPT ![name] = Append(@, NewId)]
    IN  {[resp |-> Return(Some(NewId)), remote |-> created],
         [resp |-> Raise(Exc("ReadTimeout", <<"Read", "timed", "out.">>)), remote |-> created],
         [resp |-> Return(None), remote |-> remote]}
        \cup {[resp |-> Raise(e), remote |-> remote] : e \in ApiFailures}

\* Test scripts problem.script may answer with: none yet, or one.
ScriptTexts == {"", "gen 1 > $"}

\* Any other method: its result (the script text for problem.script, as plain
\* text; an empty result otherwise), or a failure.
polygon_api_call(method_name) ==
    (IF method_name = "problem.script"
     THEN {Return(Some(text)) : text \in ScriptTexts}
     ELSE {Return(None)})
    \cup {Raise(e) : e \in ApiFailures}

\* _call: whether the request goes out
_call_sends_in(methods, method_key, dry) ==
    ~get_method_in(methods, method_key).raised /\ ~dry

_call_sends(method_key, dry) == _call_sends_in(METHODS, method_key, dry)

\* Mutant: a failed request is taken for an empty result.
_call_result_swallow(method_key, dry, resp) ==
    LET m == get_method(method_key)
    IN  IF m.raised THEN m
        ELSE IF dry \/ resp.raised THEN Return(None)
        ELSE resp

\* _call: what the caller gets, resp being the answer to the request if sent
_call_result_in(methods, method_key, dry, resp) ==
    LET m == get_method_in(methods, method_key)
    IN  IF m.raised THEN m
        ELSE IF dry THEN Return(None)
        ELSE IF resp.raised
             THEN Raise(Exc("BuildError",
                            <<"Polygon", "call", "failed", "for", m.value>> \o resp.exc.msg))
             ELSE resp

_call_result(method_key, dry, resp) == _call_result_in(METHODS, method_key, dry, resp)

\* The answers _call may see: those of the request, or none when nothing is sent.
_call_answers_in(methods, method_key, dry) ==
    IF _call_sends_in(methods, method_key, dry)
    THEN polygon_api_call(get_method_in(methods, method_key).value)
    ELSE {Return(None)}

_call_answers(method_key, dry) == _call_answers_in(METHODS, method_key, dry)

\* _call's effect on the run's request log
_call_log(r, method_key, params, dry, resp) ==
    calls' = [calls EXCEPT ![r] =
                 IF _call_sends(method_key, dry)
                 THEN Append(@, Request(get_method(method_key).value, params, resp))
                 ELSE @]

\* stage1, the creation: resp = polygon_api_call("problem.create", ...), then
\* `if dry_run: state["problem_id"] = polygon_id`
Stage1Create(r) ==
    /\ pc[r] = "create"
    /\ \E o \in polygon_api_call_create(cfg[r].polygon_name) :
          LET res == PL_create_problem(o.resp)
          IN  /\ remote' = o.remote
              /\ calls' = [calls EXCEPT ![r] =
                              Append(@, Request("problem.create",
                                                [name |-> cfg[r].polygon_name], o.resp))]
              /\ IF res.raised
                 THEN /\ _stage_except(r, 1, res.exc)
                      /\ UNCHANGED state
                 ELSE /\ state' = [state EXCEPT ![r].problem_id =
                                      IF dry_run[r] THEN res.value ELSE @]
                      /\ _stage_done(r, 1)
    /\ UNCHANGED <<cfg, dry_run, seen, overlap, plan, locals, probe>>

\* stage9, first call: _call("commit_changes", {problemId, minorChanges})
Stage9Commit(r) ==
    /\ pc[r] = "commit"
    /\ \E resp \in _call_answers("commit_changes", dry_run[r]) :
          LET params == [problemId |-> state[r].problem_id, minorChanges |-> "true"]
              res == _call_result("commit_changes", dry_run[r], resp)
          IN  /\ _call_log(r, "commit_changes", params, dry_run[r], resp)
              /\ IF res.raised
                 THEN _stage_except(r, 9, res.exc)
                 ELSE Goto(r, "package")
    /\ UNCHANGED <<remote, cfg, dry_run, state, seen, overlap, plan, locals, probe>>

\* stage9, second call: _call("build_package", {problemId, full, verify})
Stage9Package(r) ==
    /\ pc[r] = "package"
    /\ \E resp \in _call_answers("build_package", dry_run[r]) :
          LET params == [problemId |-> state[r].problem_id, full |-> "false",
                         verify |-> "true"]
              res == _call_result("build_package", dry_run[r], resp)
          IN  /\ _call_log(r, "build_package", params, dry_run[r], resp)
              /\ IF res.raised
                 THEN _stage_except(r, 9, res.exc)
                 ELSE _stage_done(r, 9)
    /\ UNCHANGED <<remote, cfg, dry_run, state, seen, overlap, plan, locals, probe>>

Next ==
    \E r \in Runs :
        \/ Main(r)
        \/ Stage1Lookup(r)
        \/ Stage1Recheck(r)
        \/ Stage1Create(r)
        \/ Stage9Commit(r)
        \/ Stage9Package(r)

Spec == Init /\ [][Next]_vars

\* ------------------------------------------- the stages build() does not call
\* stage2 .. stage8 are defined in build() but their _stage calls are commented
\* out. Each is modelled as written and driven by a stage test: one process
\* that makes a single _stage call on a prepared build state.

MaxSolutions == 2
MaxSamples == 2
MaxGenerators == 2

\* The run a stage test uses.
TestRuns == {r \in Runs : \A q \in Runs : r <= q}

\* problem.get("tags"): absent, empty, or a list of tags
TagLists == {None, << >>, <<"dp">>}

\* files.solutions: lists of {path, tag}, the path named by its position
SolutionLists ==
    UNION {[1..n -> {"MA", "OK"}] : n \in 0..MaxSolutions}

Solution(tags, i) == [path |-> <<"sol", i, ".cpp">>, tag |-> tags[i]]

\* An entry of the samples file: "in", and the optional "out" and "example"
Samples ==
    {[in |-> Some("1 2"), out |-> Some("3"), example |-> Some("true")],
     [in |-> Some("5"), out |-> None, example |-> None],
     [in |-> None, out |-> Some("3"), example |-> None]}

\* The samples file: a list of entries
SampleLists == UNION {[1..n -> Samples] : n \in 0..MaxSamples}

\* gen.get("repeat", 1) and gen.get("cmd", ""): an absent cmd is the empty one
Repeats == {3, 5}

Cmds == {None, Some(""), Some("gen 7 > 9")}

\* tests.generators: lists of {path, repeat, cmd}, the path named by its position
GeneratorLists ==
    UNION {[1..n -> [repeat : Repeats, cmd : Cmds]] : n \in 0..MaxGenerators}

Generator(gens, i) ==
    [path |-> <<"gen", i, ".cpp">>, stem |-> <<"gen", i>>,
     repeat |-> gens[i].repeat, cmd |-> gens[i].cmd]

\* The problem definitions a stage test loads, by the _stage calls it makes.
TestDefinitions(stages) ==
    LET base == [polygon_name |-> CHOOSE n \in Names : TRUE, language |-> "english",
                 timelimit_ms |-> 2000, memory_mb |-> 256,
                 tags |-> None, solutions |-> <<"MA">>,
                 samples |-> << >>, generators |-> << >>]
    IN  CASE stages = <<2>> -> {[base EXCEPT !.tags = t] : t \in TagLists}
          [] stages = <<7>> -> {[base EXCEPT !.samples = l] : l \in SampleLists}
          [] stages = <<8>> -> {[base EXCEPT !.generators = l] : l \in GeneratorLists}
          [] stages \in {<<6>>, BuildStages} ->
                {[base EXCEPT !.solutions = sols] : sols \in SolutionLists}
          [] OTHER -> {base}

\* The _stage calls a stage test makes: those of build(), or one stage alone.
TestPlans == {BuildStages, <<2>>, <<6>>, <<7>>, <<8>>}

\* A stage test: build()'s head for a definition, then the _stage calls of the
\* plan. A single stage under test starts from a build state holding a
\* problem id, as stage 1 leaves it when the problem exists.
TestMain(r) ==
    /\ pc[r] = "idle"
    /\ \E stages \in TestPlans, dry \in BOOLEAN :
          \E def \in TestDefinitions(stages) :
              /\ cfg' = [cfg EXCEPT ![r] = def]
              /\ dry_run' = [dry_run EXCEPT ![r] = dry]
              /\ plan' = [plan EXCEPT ![r] = stages]
              /\ seen' = [seen EXCEPT ![r] = remote[def.polygon_name]]
              /\ state' = [state EXCEPT ![r] =
                              [problem_id |-> IF stages = BuildStages THEN None
                                              ELSE Some(NewId)]]
              /\ out' = [out EXCEPT ![r] = <<Marker("START", stages[1])>>]
              /\ pc' = [pc EXCEPT ![r] = StageEntry(stages[1])]
    /\ UNCHANGED <<remote, calls, failure, exit_status, overlap, locals, probe>>

\* stage2, first call: _call("update_info", {problemId, timeLimit, memoryLimit}),
\* then `if tags:`
Stage2Info(r) ==
    /\ pc[r] = "update_info"
    /\ \E resp \in _call_answers("update_info", dry_run[r]) :
          LET params == [problemId |-> state[r].problem_id,
                         timeLimit |-> cfg[r].timelimit_ms,
                         memoryLimit |-> cfg[r].memory_mb]
              res == _call_result("update_info", dry_run[r], resp)
              tags == cfg[r].tags
          IN  /\ _call_log(r, "update_info", params, dry_run[r], resp)
              /\ IF res.raised
                 THEN _stage_except(r, 2, res.exc)
                 ELSE IF tags /= None /\ Len(tags) > 0
                      THEN Goto(r, "set_tags")
                      ELSE _stage_done(r, 2)
    /\ UNCHANGED <<remote, cfg, dry_run, state, seen, overlap, plan, locals, probe>>

\* stage2, second call: _call("set_tags", {problemId, tags})
Stage2Tags(r) ==
    /\ pc[r] = "set_tags"
    /\ \E resp \in _call_answers("set_tags", dry_run[r]) :
          LET params == [problemId |-> state[r].problem_id, tags |-> cfg[r].tags]
              res == _call_result("set_tags", dry_run[r], resp)
          IN  /\ _call_log(r, "set_tags", params, dry_run[r], resp)
              /\ IF res.raised
                 THEN _stage_except(r, 2, res.exc)
                 ELSE _stage_done(r, 2)
    /\ UNCHANGED <<remote, cfg, dry_run, state, seen, overlap, plan, locals, probe>>

\* stage6: main = next((s for s in solutions if s.get("tag") == "MA"), None),
\* the position of the first solution tagged "MA", or None
stage6_main(tags) ==
    IF \E i \in DOMAIN tags : tags[i] = "MA"
    THEN Some(CHOOSE i \in DOMAIN tags :
                 tags[i] = "MA" /\ \A j \in DOMAIN tags : tags[j] = "MA" => i <= j)
    ELSE None

\* stage6: `if not main: raise BuildError`, else _call("save_solution", ...)
Stage6Solution(r) ==
    /\ pc[r] = "save_solution"
    /\ LET main == stage6_main(cfg[r].solutions)
       IN  IF main = None
           THEN /\ _stage_except(r, 6,
                      Exc("BuildError", <<"No", "solution", "with", "tag", "==", "'MA'",
                                          "found">>))
                /\ UNCHANGED calls
           ELSE \E resp \in _call_answers("save_solution", dry_run[r]) :
                   LET sol == Solution(cfg[r].solutions, main[1])
                       params == [problemId |-> state[r].problem_id, name |-> sol.path,
                                  file |-> <<"text of", sol.path>>, tag |-> sol.tag]
                       res == _call_result("save_solution", dry_run[r], resp)
                   IN  /\ _call_log(r, "save_solution", params, dry_run[r], resp)
                       /\ IF res.raised
                          THEN _stage_except(r, 6, res.exc)
                          ELSE _stage_done(r, 6)
    /\ UNCHANGED <<remote, cfg, dry_run, state, seen, overlap, plan, locals, probe>>

\* f"[{idx}]" for the indexes a samples file has
IndexWord(idx) == <<"[0]", "[1]", "[2]", "[3]">>[idx + 1]

\* `x not in (None, "")`
NotBlank(x) == x /= None /\ x[1] /= ""

\* _load_samples: the entries, or ConfigError for the first bad one
_load_samples(samples) ==
    LET bad(i) == \/ samples[i].in = None
                  \/ /\ samples[i].example /= None
                     /\ samples[i].example[1] \notin {"true", "false"}
    IN  IF \E i \in DOMAIN samples : bad(i)
        THEN LET i == CHOOSE i \in DOMAIN samples :
                          bad(i) /\ \A j \in DOMAIN samples : bad(j) => i <= j
             IN  IF samples[i].in = None
                 THEN Raise(Exc("ConfigError",
                                <<"Missing", "in", "for", "samples", IndexWord(i - 1)>>))
                 ELSE Raise(Exc("ConfigError",
                                <<"Expected", "'true'", "or", "'false'", "for", "samples",
                                  IndexWord(i - 1), ".example">>))
        ELSE Return(samples)

\* Mutant: the second save_script follows the samples whatever the script was.
stage7_next_always_restore(r, script_cmd, samples, idx) ==
    IF idx < Len(samples) THEN Goto(r, "save_test")
    ELSE Goto(r, "restore")

\* stage7 after the blanking call and after each save_test: the next sample,
\* then the restoring save_script if there was a script, then the return.
stage7_next(r, script_cmd, samples, idx) ==
    IF idx < Len(samples) THEN Goto(r, "save_test")
    ELSE IF NotBlank(script_cmd) THEN Goto(r, "restore")
    ELSE _stage_done(r, 7)

\* stage7: samples = _load_samples(...); script_cmd = _call("script", ...);
\* `if script_cmd not in (None, "")`
Stage7Script(r) ==
    /\ pc[r] = "script"
    /\ LET loaded == _load_samples(cfg[r].samples)
       IN  IF loaded.raised
           THEN /\ _stage_except(r, 7, loaded.exc)
                /\ UNCHANGED <<calls, locals>>
           ELSE \E resp \in _call_answers("script", dry_run[r]) :
                   LET params == [problemId |-> state[r].problem_id, testset |-> "tests"]
                       res == _call_result("script", dry_run[r], resp)
                   IN  /\ _call_log(r, "script", params, dry_run[r], resp)
                       /\ IF res.raised
                          THEN /\ _stage_except(r, 7, res.exc)
                               /\ UNCHANGED locals
                          ELSE /\ locals' = [locals EXCEPT ![r] =
                                                [@ EXCEPT !.samples = loaded.value,
                                                          !.script_cmd = res.value]]
                               /\ IF NotBlank(res.value)
                                  THEN Goto(r, "blank")
                                  ELSE stage7_next(r, res.value, loaded.value, 0)
    /\ UNCHANGED <<remote, cfg, dry_run, state, seen, overlap, plan, probe>>

\* stage7: _call("save_script", {..., "source": " "}) before the samples
Stage7Blank(r) ==
    /\ pc[r] = "blank"
    /\ \E resp \in _call_answers("save_script", dry_run[r]) :
          LET params == [problemId |-> state[r].problem_id, testset |-> "tests",
                         source |-> " "]
              res == _call_result("save_script", dry_run[r], resp)
          IN  /\ _call_log(r, "save_script", params, dry_run[r], resp)
              /\ IF res.raised
                 THEN _stage_except(r, 7, res.exc)
                 ELSE stage7_next(r, locals[r].script_cmd, locals[r].samples, 0)
    /\ UNCHANGED <<remote, cfg, dry_run, state, seen, overlap, plan, locals, probe>>

\* stage7, the loop body: _call("save_test", ...) for the next sample
Stage7Test(r) ==
    /\ pc[r] = "save_test"
    /\ \E resp \in _call_answers("save_test", dry_run[r]) :
          LET idx == locals[r].idx + 1
              sample == locals[r].samples[idx]
              params == [problemId |-> state[r].problem_id, testset |-> "tests",
                         testIndex |-> idx, testInput |-> sample.in[1],
                         testUseInStatements |->
                             IF sample.example = None THEN "false" ELSE sample.example[1],
                         testOutputForStatements |->
                             IF sample.out = None THEN "" ELSE sample.out[1]]
              res == _call_result("save_test", dry_run[r], resp)
          IN  /\ _call_log(r, "save_test", params, dry_run[r], resp)
              /\ locals' = [locals EXCEPT ![r].idx = idx]
              /\ IF res.raised
                 THEN _stage_except(r, 7, res.exc)
                 ELSE stage7_next(r, locals[r].script_cmd, locals[r].samples, idx)
    /\ UNCHANGED <<remote, cfg, dry_run, state, seen, overlap, plan, probe>>

\* stage7: _call("save_script", {..., "source": script_cmd}) after the samples
Stage7Restore(r) ==
    /\ pc[r] = "restore"
    /\ \E resp \in _call_answers("save_script", dry_run[r]) :
          LET params == [problemId |-> state[r].problem_id, testset |-> "tests",
                         source |-> locals[r].script_cmd[1]]
              res == _call_result("save_script", dry_run[r], resp)
          IN  /\ _call_log(r, "save_script", params, dry_run[r], resp)
              /\ IF res.raised
                 THEN _stage_except(r, 7, res.exc)
                 ELSE _stage_done(r, 7)
    /\ UNCHANGED <<remote, cfg, dry_run, state, seen, overlap, plan, locals, probe>>

\* stage8: what one generator adds to the script. Its own cmd as written, or
\* a <#list from..to> block running the generator for each index.
stage8_fragment(gen_idx, gen, cnt) ==
    IF NotBlank(gen.cmd)
    THEN [kind |-> "cmd", gen |-> gen_idx, text |-> gen.cmd[1], from |-> 0, to |-> 0]
    ELSE [kind |-> "list", gen |-> gen_idx, text |-> "", from |-> cnt,
          to |-> cnt + gen.repeat - 1]

\* stage8: cnt after one generator
stage8_cnt(gen, cnt) == IF NotBlank(gen.cmd) THEN cnt ELSE cnt + gen.repeat

\* stage8, the loop body: extend the script, then add_file_source(pid, gen_path)
Stage8Generator(r) ==
    /\ pc[r] = "generators"
    /\ locals[r].idx < Len(cfg[r].generators)
    /\ \E resp \in _call_answers("save_file", dry_run[r]) :
          LET gen_idx == locals[r].idx + 1
              gen == Generator(cfg[r].generators, gen_idx)
              params == [problemId |-> state[r].problem_id, type |-> "source",
                         name |-> gen.path, file |-> <<"text of", gen.path>>]
              res == _call_result("save_file", dry_run[r], resp)
          IN  /\ _call_log(r, "save_file", params, dry_run[r], resp)
              /\ locals' = [locals EXCEPT ![r] =
                               [@ EXCEPT !.idx = gen_idx,
                                         !.script = Append(@, stage8_fragment(gen_idx, gen,
                                                                              locals[r].cnt)),
                                         !.cnt = stage8_cnt(gen, @)]]
              /\ IF res.raised
                 THEN _stage_except(r, 8, res.exc)
                 ELSE Goto(r, "generators")
    /\ UNCHANGED <<remote, cfg, dry_run, state, seen, overlap, plan, probe>>

\* stage8, after the loop: _call("save_script", {..., "source": script_cmd})
Stage8Script(r) ==
    /\ pc[r] = "generators"
    /\ locals[r].idx = Len(cfg[r].generators)
    /\ \E resp \in _call_answers("save_script", dry_run[r]) :
          LET params == [problemId |-> state[r].problem_id, testset |-> "tests",
                         source |-> locals[r].script]
              res == _call_result("save_script", dry_run[r], resp)
          IN  /\ _call_log(r, "save_script", params, dry_run[r], resp)
              /\ IF res.raised
                 THEN _stage_except(r, 8, res.exc)
                 ELSE _stage_done(r, 8)
    /\ UNCHANGED <<remote, cfg, dry_run, state, seen, overlap, plan, locals, probe>>

StageNext ==
    \E r \in TestRuns :
        \/ TestMain(r)
        \/ Stage1Lookup(r)
        \/ Stage1Recheck(r)
        \/ Stage1Create(r)
        \/ Stage2Info(r)
        \/ Stage2Tags(r)
        \/ Stage6Solution(r)
        \/ Stage7Script(r)
        \/ Stage7Blank(r)
        \/ Stage7Test(r)
        \/ Stage7Restore(r)
        \/ Stage8Generator(r)
        \/ Stage8Script(r)
        \/ Stage9Commit(r)
        \/ Stage9Package(r)

StageSpec == Init /\ [][StageNext]_vars

\* ------------------------------------------------------- _call, on its own
\* Registries a test of _call runs against: METHODS, and METHODS with one entry
\* marked unconfirmed.
Registries ==
    {METHODS} \cup {[METHODS EXCEPT ![k] = <<@[1], FALSE>>] : k \in {"save_file", "script"}}

\* The keys the test resolves: the registered ones, and the two build() uses
\* that are not registered.
CallKeys == DOMAIN METHODS \cup {"set_tags", "build_package"}

CallProbes ==
    [op : {"call"}, methods : Registries, key : CallKeys, dry : BOOLEAN,
     sent : {<< >>}, result : {None}]

\* _call(method_key, params, dry_run, verbose) against the probe's registry
ProbeCall ==
    /\ probe.op = "call"
    /\ probe.result = None
    /\ \E resp \in _call_answers_in(probe.methods, probe.key, probe.dry) :
          probe' = [probe EXCEPT
                       !.sent = IF _call_sends_in(probe.methods, probe.key, probe.dry)
                                THEN <<Request(get_method_in(probe.methods, probe.key).value,
                                               [problemId |-> Some(1)], resp)>>
                                ELSE << >>,
                       !.result = Some(_call_result_in(probe.methods, probe.key,
                                                       probe.dry, resp))]
    /\ UNCHANGED <<remote, pc, cfg, dry_run, state, calls, out, failure, exit_status,
                   seen, overlap, plan, locals>>

CallNext == ProbeCall

CallInit == InitBuild /\ probe \in CallProbes

CallSpec == CallInit /\ [][CallNext]_vars

\* ------------------------------------------------- the signing, on its own
MaxParams == 2

\* Unicode code points of the characters the test strings are made of
ord(c) ==
    CASE c = "#" -> 35 [] c = "&" -> 38 [] c = "/" -> 47
      [] c = "0" -> 48 [] c = "1" -> 49 [] c = "2" -> 50 [] c = "3" -> 51
      [] c = "4" -> 52 [] c = "5" -> 53 [] c = "6" -> 54 [] c = "7" -> 55
      [] c = "8" -> 56 [] c = "9" -> 57
      [] c = "=" -> 61 [] c = "?" -> 63 [] c = "K" -> 75
      [] c = "a" -> 97 [] c = "b" -> 98 [] c = "e" -> 101 [] c = "i" -> 105
      [] c = "k" -> 107 [] c = "m" -> 109 [] c = "p" -> 112 [] c = "s" -> 115
      [] c = "t" -> 116 [] c = "y" -> 121

\* A Python str, as the sequence of its code points
Str(chars) == [i \in DOMAIN chars |-> ord(chars[i])]

\* Python values a parameter mapping holds: a str (its code points in s) or
\* an int (in n)
PyText(s) == [t |-> "str", s |-> s, n |-> 0]

PyStr(chars) == PyText(Str(chars))

PyInt(n) == [t |-> "int", s |-> << >>, n |-> n]

\* str(n) of a non-negative int: its decimal digits
RECURSIVE str_int(_)
str_int(n) == IF n < 10 THEN <<48 + n>> ELSE str_int(n \div 10) \o <<48 + (n % 10)>>

\* str(v)
str(v) == IF v.t = "int" THEN str_int(v.n) ELSE v.s

\* a < b for two str: lexicographic over the code points
RECURSIVE StrLess(_, _)
StrLess(a, b) ==
    IF a = << >> THEN b /= << >>
    ELSE IF b = << >> THEN FALSE
    ELSE IF a[1] /= b[1] THEN a[1] < b[1]
    ELSE StrLess(Tail(a), Tail(b))

\* x < y for two (str, str) tuples
PairLess(x, y) == StrLess(x[1], y[1]) \/ (x[1] = y[1] /\ StrLess(x[2], y[2]))

\* Mutant: the items are signed in the order the mapping gives them.
sorted_as_given(items) == items

\* sorted(items): each item at its rank, equal items in their given order
sorted(items) ==
    LET rank(i) == 1 + Cardinality({j \in DOMAIN items :
                                       \/ PairLess(items[j], items[i])
                                       \/ items[j] = items[i] /\ j < i})
    IN  [n \in DOMAIN items |-> items[CHOOSE i \in DOMAIN items : rank(i) = n]]

\* sep.join(parts)
RECURSIVE join(_, _)
join(sep, parts) ==
    IF parts = << >> THEN << >>
    ELSE IF Len(parts) = 1 THEN parts[1]
    ELSE parts[1] \o sep \o join(sep, Tail(parts))

\* p[k] = v on a dict, kept as its items in insertion order
dict_set(p, k, v) ==
    IF \E i \in DOMAIN p : p[i].k = k
    THEN [i \in DOMAIN p |-> IF p[i].k = k THEN [k |-> k, v |-> v] ELSE p[i]]
    ELSE Append(p, [k |-> k, v |-> v])

\* Mutant: the signed string names the keys only.
param_str_keys(items) == join(Str(<<"&">>), [i \in DOMAIN items |-> items[i][1]])

\* "&".join(f"{k}={v}" for k, v in items)
param_str(items) ==
    join(Str(<<"&">>), [i \in DOMAIN items |-> items[i][1] \o Str(<<"=">>) \o items[i][2]])

POLYGON_API_KEY == Str(<<"k", "1">>)

POLYGON_API_SECRET == Str(<<"s", "1">>)

\* hashlib.sha512(text).hexdigest(), taken as collision-free: the digest stands
\* for the text hashed
sha512_hexdigest(text) == <<"sha512", text>>

\* polygon_api_call up to the signature, for the nonce `rand` drawn and the
\* clock reading `now`
polygon_api_call_sign(method_name, params, rand, now) ==
    LET p == dict_set(dict_set(params, PyStr(<<"a", "p", "i", "K", "e", "y">>),
                               PyText(POLYGON_API_KEY)),
                      PyStr(<<"t", "i", "m", "e">>), PyText(str_int(now)))
        items == sorted([i \in DOMAIN p |-> <<str(p[i].k), str(p[i].v)>>])
        to_sign == rand \o Str(<<"/">>) \o method_name \o Str(<<"?">>) \o param_str(items)
                   \o Str(<<"#">>) \o POLYGON_API_SECRET
    IN  [items |-> items, param_str |-> param_str(items), to_sign |-> to_sign,
         api_sig |-> <<rand, sha512_hexdigest(to_sign)>>]

\* The parameter mappings a test signs: keys and values of the caller
ParamKeys == {PyStr(<<"a">>), PyStr(<<"b">>), PyStr(<<"a", "b">>)}

ParamValues == {PyInt(1), PyInt(12), PyStr(<<"1">>), PyStr(<<"1", "&", "b", "=", "1">>)}

ParamDicts ==
    UNION {{d \in [1..n -> [k : ParamKeys, v : ParamValues]] :
               \A i, j \in 1..n : i /= j => d[i].k /= d[j].k} : n \in 0..MaxParams}

\* random.choices(string.digits, k=6) and int(time.time())
Rands == {Str(<<"1", "2", "3", "4", "5", "6">>)}

Times == {9, 10}

SignMethods == {Str(<<"m">>)}

SignProbes ==
    [op : {"sign"}, method : SignMethods, params : ParamDicts, rand : Rands, now : Times,
     change : {"none"}, other : {<< >>}, first : {None}, second : {None}]

\* Two calls with the probe's nonce, clock and method: one signing params, one
\* signing `other`.
SignBoth(change, other) ==
    /\ probe.op = "sign"
    /\ probe.first = None
    /\ probe' = [probe EXCEPT
                    !.change = change,
                    !.other = other,
                    !.first = Some(polygon_api_call_sign(probe.method, probe.params,
                                                         probe.rand, probe.now)),
                    !.second = Some(polygon_api_call_sign(probe.method, other,
                                                          probe.rand, probe.now))]
    /\ UNCHANGED <<remote, pc, cfg, dry_run, state, calls, out, failure, exit_status,
                   seen, overlap, plan, locals>>

\* The same mapping signed twice.
SignTwice == SignBoth("same", probe.params)

\* The mapping's items put in another order, then signed.
SignPermuted ==
    \E f \in Permutations(DOMAIN probe.params) :
        SignBoth("order", [i \in DOMAIN probe.params |-> probe.params[f[i]]])

\* One parameter's value replaced by another, then signed.
SignChanged ==
    \E i \in DOMAIN probe.params :
        \E v \in ParamValues \ {probe.params[i].v} :
            SignBoth("value", [probe.params EXCEPT ![i].v = v])

SignNext == SignTwice \/ SignPermuted \/ SignChanged

SignInit == InitBuild /\ probe \in SignProbes

SignSpec == SignInit /\ [][SignNext]_vars

\* ------------------------------------- the response handling, on its own
\* A response body is its text as a list of words: " " for a run of
\* whitespace, "{" and "}" for the braces of a JSON object, and between them
\* a key and a value for each member.
MaxLead == 1

\* The members an envelope may have, each present or not
EnvelopeShapes ==
    [status : {None, Some("OK"), Some("FAILED")},
     comment : {None, Some("no access")},
     result : {None, Some("r1")}]

\* An envelope's members in the order the remote writes them
Members(shape) ==
    (IF shape.status = None THEN << >> ELSE <<"status", shape.status[1]>>)
    \o (IF shape.comment = None THEN << >> ELSE <<"comment", shape.comment[1]>>)
    \o (IF shape.result = None THEN << >> ELSE <<"result", shape.result[1]>>)

\* The body the remote sends for an envelope, after `lead` runs of whitespace
EnvelopeText(lead, shape) ==
    [i \in 1..lead |-> " "] \o <<"{">> \o Members(shape) \o <<"}">>

\* Bodies that are not a JSON object: plain text, an HTML page, nothing, text
\* after whitespace, and an object cut short
PlainTexts == {<<"done">>, <<"<html>", "error", "</html>">>, << >>, <<" ", "done">>,
               <<"{", "status">>}

\* The responses a test classifies: Content-Type header (None when absent),
\* HTTP status code, body text; for an envelope, its shape
Responses ==
    LET ctypes == {None, <<"application/json">>,
                   <<"Application/JSON", ";", "charset=utf-8">>, <<"text/html">>}
        codes == {200, 404, 500}
    IN  {[ctype |-> c, status_code |-> code, text |-> EnvelopeText(lead, shape),
          envelope |-> Some(shape)] :
            c \in ctypes, code \in codes, lead \in 0..MaxLead, shape \in EnvelopeShapes}
        \cup
        {[ctype |-> c, status_code |-> code, text |-> t, envelope |-> None] :
            c \in ctypes, code \in codes, t \in PlainTexts}

\* str.lstrip()
RECURSIVE lstrip(_)
lstrip(text) ==
    IF text /= << >> /\ text[1] = " " THEN lstrip(Tail(text)) ELSE text

\* str.startswith(prefix), for a one-word prefix
startswith(text, prefix) == text /= << >> /\ text[1] = prefix

\* r.json(): the object's members as (key, value) pairs, or ValueError
\* (json.JSONDecodeError) when the body is not a JSON object
json(text) ==
    LET t == lstrip(text)
        n == Len(t)
    IN  IF n >= 2 /\ t[1] = "{" /\ t[n] = "}" /\ n % 2 = 0
        THEN Return([i \in 1..((n - 2) \div 2) |-> <<t[2 * i], t[2 * i + 1]>>])
        ELSE Raise(Exc("ValueError", <<"Expecting", "value">>))

\* j.get(key, default)
get(j, key, default) ==
    IF \E i \in DOMAIN j : j[i][1] = key
    THEN (CHOOSE m \in {j[i] : i \in DOMAIN j} : m[1] = key)[2]
    ELSE default

\* str(j) for a dict and "{}": the braces around the members
RECURSIVE members_str(_)
members_str(j) == IF j = << >> THEN << >> ELSE <<j[1][1], j[1][2]>> \o members_str(Tail(j))

dict_str(j) == <<"{">> \o members_str(j) \o <<"}">>

\* f"{r.status_code}:"
StatusWord(code) ==
    CASE code = 200 -> "200:" [] code = 404 -> "404:" [] code = 500 -> "500:"

\* Mutant: only the Content-Type decides that the body is JSON.
is_json_by_header(ctype, text) == Contains(lower(ctype), <<"application/json">>)

\* `"application/json" in ctype or r.text.lstrip().startswith("{")`
is_json(ctype, text) ==
    Contains(lower(ctype), <<"application/json">>) \/ startswith(lstrip(text), "{")

\* polygon_api_call from the response r on: the value returned or the
\* exception raised
polygon_api_call_response(r) ==
    IF is_json(r.ctype, r.text)
    THEN LET j == json(r.text)
         IN  IF j.raised THEN j
             ELSE IF get(j.value, "status", "") /= "OK"
                  THEN Raise(Exc("RuntimeError",
                                 IF \E i \in DOMAIN j.value : j.value[i][1] = "comment"
                                 THEN <<get(j.value, "comment", "")>>
                                 ELSE dict_str(j.value)))
                  ELSE Return(Some(IF \E i \in DOMAIN j.value : j.value[i][1] = "result"
                                   THEN <<get(j.value, "result", "")>>
                                   ELSE dict_str(<< >>)))
    ELSE IF r.status_code >= 400
         THEN Raise(Exc("RuntimeError", <<"HTTP", StatusWord(r.status_code)>> \o r.text))
         ELSE Return(Some(r.text))

ResponseProbes == [op : {"response"}, r : Responses, outcome : {None}]

\* The rest of polygon_api_call once requests.post has returned r
ProbeResponse ==
    /\ probe.op = "response"
    /\ probe.outcome = None
    /\ probe' = [probe EXCEPT !.outcome = Some(polygon_api_call_response(probe.r))]
    /\ UNCHANGED <<remote, pc, cfg, dry_run, state, calls, out, failure, exit_status,
                   seen, overlap, plan, locals>>

ResponseNext == ProbeResponse

ResponseInit == InitBuild /\ probe \in ResponseProbes

ResponseSpec == ResponseInit /\ [][ResponseNext]_vars

\* ------------------------------------------------ loading the definition
\* A document is seen as validation sees it: which sections are mappings, and
\* for each required key whether it is absent, an int, a non-blank str or a
\* blank str. It has no tags, no solutions and no generators.
Sections == <<"problem", "statement", "files", "tests">>

\* The keys load_problem_config requires of a section, in the order it checks
\* them, with the type it expects
Required(section) ==
    CASE section = "problem" ->
             <<[key |-> "polygon_name", type |-> "str"], [key |-> "name", type |-> "str"],
               [key |-> "timelimit_ms", type |-> "int"],
               [key |-> "memory_mb", type |-> "int"]>>
      [] section = "statement" ->
             <<[key |-> "legend_md", type |-> "str"], [key |-> "input_md", type |-> "str"],
               [key |-> "output_md", type |-> "str"], [key |-> "notes_md", type |-> "str"]>>
      [] section = "files" ->
             <<[key |-> "checker", type |-> "str"],
               [key |-> "validator_path", type |-> "str"]>>
      [] section = "tests" -> <<[key |-> "samples_path", type |-> "str"]>>

Kinds == {"absent", "int", "str", "blank"}

\* The document every key of which is as required
ValidDocument ==
    [section \in {Sections[i] : i \in DOMAIN Sections} |->
        [present |-> TRUE,
         keys |-> [k \in {Required(section)[i].key : i \in DOMAIN Required(section)} |->
                      (CHOOSE c \in {Required(section)[i] : i \in DOMAIN Required(section)} :
                          c.key = k).type]]]

\* The documents a test loads: the valid one with problem.timelimit_ms,
\* files.checker and tests.samples_path of any kind, and those without a
\* files section
Documents ==
    LET with(t, c, s) ==
            [ValidDocument EXCEPT !["problem"].keys["timelimit_ms"] = t,
                                  !["files"].keys["checker"] = c,
                                  !["tests"].keys["samples_path"] = s]
        nofiles(d) ==
            [d EXCEPT !["files"] = [present |-> FALSE,
                                    keys |-> [k \in DOMAIN d["files"].keys |-> "absent"]]]
    IN  {with(t, c, s) : t \in Kinds, c \in Kinds, s \in Kinds}
        \cup {nofiles(with(t, "absent", s)) : t \in Kinds, s \in Kinds}

\* _require followed by _require_str / _require_int: the errors appended for
\* one key of a section
require_errors(section, check, kind) ==
    (IF kind = "absent" THEN <<<<"Missing", section, check.key>>>> ELSE << >>)
    \o (IF kind = check.type THEN << >>
        ELSE IF check.type = "int"
             THEN <<<<"Expected", "integer", "for", section, check.key>>>>
             ELSE <<<<"Expected", "non-empty", "string", "for", section, check.key>>>>)

\* The errors appended for a section: the section itself, then its keys
RECURSIVE keys_errors(_, _, _)
keys_errors(doc, section, n) ==
    IF n = 0 THEN << >>
    ELSE keys_errors(doc, section, n - 1)
         \o require_errors(section, Required(section)[n],
                           doc[section].keys[Required(section)[n].key])

section_errors(doc, section) ==
    (IF doc[section].present THEN << >>
     ELSE <<<<"Missing", "or", "invalid", section, "section">>>>)
    \o keys_errors(doc, section, Len(Required(section)))

\* Mutant: validation stops at the first error.
load_problem_config_first(doc) ==
    LET all == section_errors(doc, "problem") \o section_errors(doc, "statement")
               \o section_errors(doc, "files") \o section_errors(doc, "tests")
    IN  IF all = << >> THEN << >> ELSE <<all[1]>>

\* load_problem_config: the list `errors` when validation is over
load_problem_config(doc) ==
    section_errors(doc, "problem") \o section_errors(doc, "statement")
    \o section_errors(doc, "files") \o section_errors(doc, "tests")

ConfigProbes == [op : {"config"}, doc : Documents]

\* main() on the probe's document: build() calls load_problem_config first,
\* which raises ConfigError("\n".join(errors)) out of build() when there are
\* errors; otherwise build() goes on as in Main.
ConfigMain(r) ==
    /\ probe.op = "config"
    /\ pc[r] = "idle"
    /\ LET errors == load_problem_config(probe.doc)
           name == CHOOSE n \in Names : TRUE
       IN  \E dry \in BOOLEAN :
              /\ dry_run' = [dry_run EXCEPT ![r] = dry]
              /\ IF errors /= << >>
                 THEN /\ failure' = [failure EXCEPT ![r] =
                                        Some([type |-> "ConfigError", number |-> 0,
                                              title |-> "",
                                              cause |-> Exc("ConfigError",
                                                            join(<<"\n">>, errors))])]
                      /\ pc' = [pc EXCEPT ![r] = "exited"]
                      /\ exit_status' = [exit_status EXCEPT ![r] = Some(1)]
                      /\ UNCHANGED <<cfg, seen, state, out>>
                 ELSE /\ cfg' = [cfg EXCEPT ![r] = [polygon_name |-> name,
                                                    language |-> "english"]]
                      /\ seen' = [seen EXCEPT ![r] = remote[name]]
                      /\ state' = [state EXCEPT ![r] = [problem_id |-> None]]
                      /\ out' = [out EXCEPT ![r] = <<Marker("START", BuildStages[1])>>]
                      /\ pc' = [pc EXCEPT ![r] = StageEntry(BuildStages[1])]
                      /\ UNCHANGED <<failure, exit_status>>
    /\ UNCHANGED <<remote, calls, overlap, plan, locals, probe>>

ConfigNext ==
    \E r \in TestRuns :
        \/ ConfigMain(r)
        \/ Stage1Lookup(r)
        \/ Stage1Recheck(r)
        \/ Stage1Create(r)
        \/ Stage9Commit(r)
        \/ Stage9Package(r)

ConfigInit == InitBuild /\ probe \in ConfigProbes

ConfigSpec == ConfigInit /\ [][ConfigNext]_vars

\* ------------------------------------------------------------ observations
Started(r, number) == \E i \in DOMAIN out[r] : out[r][i] = Marker("START", number)

Done(r, number) == \E i \in DOMAIN out[r] : out[r][i] = Marker("DONE", number)

Exited(r) == pc[r] = "exited"

\* The positions of the run's requests to a remote method.
CallsTo(r, method) == {i \in DOMAIN calls[r] : calls[r][i].method = method}

\* The positions of the run's problem.create requests answered with an id.
Created(r) ==
    {i \in CallsTo(r, "problem.create") :
        ~calls[r][i].resp.raised /\ calls[r][i].resp.value /= None}

\* The run's first request is the lookup, and it raised.
LookupRaised(r) == Len(calls[r]) >= 1 /\ calls[r][1].resp.raised

\* The run's second request is PL_create_problem's recheck, and it listed a problem.
RecheckFound(r) ==
    /\ Len(calls[r]) >= 2
    /\ calls[r][2].method = "problems.list"
    /\ ~calls[r][2].resp.raised
    /\ calls[r][2].resp.value /= << >>

FailedAt(r, number) == failure[r] /= None /\ failure[r][1].number = number

\* ------------------------------------------------------------------ claims

\* C1: in a non-dry run whose lookup finds nothing and whose problem.create
\* returns id P, stage 1 stores P as state["problem_id"] and the commit call is
\* sent with problemId = P.
C1_CreatedIdStoredAndCommitted ==
    \A r \in Runs : \A i \in Created(r) :
        ~dry_run[r] =>
            /\ state[r].problem_id = calls[r][i].resp.value
            /\ \A j \in CallsTo(r, "problem.commitChanges") :
                  calls[r][j].params.problemId = calls[r][i].resp.value

\* C2: a dry run sends no request that changes the remote account, problem.create
\* included.
C2_DryRunIssuesNoMutatingCall ==
    \A r \in Runs :
        dry_run[r] => \A i \in DOMAIN calls[r] : calls[r][i].method \notin MutatingMethods

\* C3: when the stage-1 lookup raises an error whose message says "not found"
\* or "does not exist", the stage does not fail with it: the run goes on to the
\* creation step.
C3_AbsenceErrorNotPropagated ==
    \A r \in Runs :
        (LookupRaised(r) /\ _is_not_found(calls[r][1].resp.exc)) =>
            /\ ~FailedAt(r, 1) \/ failure[r][1].cause /= calls[r][1].resp.exc
            /\ Len(calls[r]) = 1 => pc[r] = "recheck"

\* C4: when the stage-1 lookup raises an error that does not say the problem is
\* absent, stage 1 fails with that error, the process exits non-zero, and the
\* run never sends problem.create.
C4_FatalLookupErrorNoCreate ==
    \A r \in Runs :
        (LookupRaised(r) /\ ~_is_not_found(calls[r][1].resp.exc)) =>
            /\ FailedAt(r, 1)
            /\ failure[r][1].cause = calls[r][1].resp.exc
            /\ exit_status[r] = Some(1)
            /\ Len(calls[r]) = 1
            /\ CallsTo(r, "problem.create") = {}

C4_Witness ==
    \E r \in Runs :
        /\ LookupRaised(r)
        /\ calls[r][1].resp.exc = Exc("RuntimeError", <<"permission", "denied">>)
        /\ Exited(r)

\* C5: fail-fast. Once a stage's body has raised, the run has exited, no stage
\* with a larger ordinal has been started, and from then on the run starts no
\* stage and sends no request (none to undo the earlier ones either).
C5_FailFast ==
    /\ [](\A r \in Runs :
            failure[r] /= None =>
                /\ Exited(r)
                /\ \A i \in DOMAIN out[r] : out[r][i].number <= failure[r][1].number)
    /\ [][\A r \in Runs :
            failure[r] /= None =>
                /\ calls'[r] = calls[r]
                /\ out'[r] = out[r]
                /\ failure'[r] = failure[r]]_vars

C5_Witness ==
    \E r, q \in Runs :
        /\ FailedAt(r, 1)
        /\ Len(calls[r]) >= 1
        /\ ~Started(r, 9)
        /\ FailedAt(q, 9)
        /\ \E i \in Created(q) :
              \E n \in Names : \E k \in DOMAIN remote[n] :
                  Some(remote[n][k]) = calls[q][i].resp.value

\* C6: a run that reaches the commit/package stage has completed every earlier
\* stage of the fixed sequence (settings, statement, checker, validator,
\* solutions, tests) exactly once, in order.
C6_CommitAfterAllStagesOnce ==
    \A r \in Runs :
        Started(r, 9) =>
            \A k \in 1..8 :
                /\ Cardinality({i \in DOMAIN out[r] : out[r][i] = Marker("DONE", k)}) = 1
                /\ Cardinality({i \in DOMAIN out[r] : out[r][i] = Marker("START", k)}) = 1

\* C7: in a non-dry run, once the commit call has succeeded the package
\* verification/build request is sent, and when it succeeds too the process
\* exits with status zero.
C7_CommitThenPackageThenExitZero ==
    \A r \in Runs : \A i \in CallsTo(r, "problem.commitChanges") :
        (~dry_run[r] /\ ~calls[r][i].resp.raised /\ Exited(r)) =>
            /\ Len(calls[r]) > i
            /\ ~calls[r][i + 1].resp.raised => (Done(r, 9) /\ exit_status[r] = Some(0))

\* C8: a definition whose statement language is not "english" makes the run
\* fail at the statement stage: no stage after it starts, and the process exits
\* non-zero reporting "STAGE 3: English statement FAILED".
C8_NonEnglishFailsAtStatementStage ==
    \A r \in Runs :
        (pc[r] /= "idle" /\ cfg[r].language /= "english") =>
            /\ \A k \in 4..9 : ~Started(r, k)
            /\ (Exited(r) /\ Done(r, 1)) =>
                  /\ exit_status[r] = Some(1)
                  /\ FailedAt(r, 3)
                  /\ failure[r][1].title = "English statement"

\* C9: check-then-create. Every problem.create request of a run comes right
\* after a problems.list request of the same run for the same name that listed
\* no problem; and when the recheck before creation lists a problem, stage 1
\* fails and the run sends no problem.create.
C9_CheckThenCreate ==
    \A r \in Runs :
        /\ \A i \in CallsTo(r, "problem.create") :
              /\ i > 1
              /\ calls[r][i - 1].method = "problems.list"
              /\ calls[r][i - 1].params.name = calls[r][i].params.name
              /\ ~calls[r][i - 1].resp.raised
              /\ calls[r][i - 1].resp.value = << >>
        /\ RecheckFound(r) =>
              /\ FailedAt(r, 1)
              /\ failure[r][1].cause.type = "RuntimeError"
              /\ CallsTo(r, "problem.create") = {}

C9_Witness ==
    \E r, q \in Runs :
        /\ Created(r) /= {}
        /\ RecheckFound(q)
        /\ Exited(q)

\* C10: over runs that do not overlap, at most one problem of a name ever
\* exists remotely; a run that starts when the problem exists sends no
\* problem.create and completes stage 1 with the existing id as problem_id.
C10_AtMostOneCreation ==
    ~overlap =>
        /\ \A n \in Names : Len(remote[n]) <= 1
        /\ \A r \in Runs :
              (pc[r] /= "idle" /\ seen[r] /= << >>) =>
                  /\ CallsTo(r, "problem.create") = {}
                  /\ Done(r, 1) => state[r].problem_id = Some(seen[r][1])

C10_Witness ==
    /\ ~overlap
    /\ \E r, q \in Runs :
          /\ Created(q) /= {}
          /\ seen[r] /= << >>
          /\ Done(r, 1)
          /\ \E i \in Created(q) : state[r].problem_id = calls[q][i].resp.value

\* C11: the existence checks do not exclude a race. A run whose recheck is
\* pending while no problem of its name exists can pass it, and a run that has
\* passed it sends problem.create whatever other runs have created meanwhile;
\* so two concurrent runs for one absent name can both pass both checks and
\* both send problem.create.
C11_RaceUnguarded ==
    \A r \in Runs :
        /\ (pc[r] = "recheck" /\ remote[cfg[r].polygon_name] = << >>) =>
              ENABLED (Stage1Recheck(r) /\ pc'[r] = "create")
        /\ pc[r] = "create" =>
              ENABLED (Stage1Create(r)
                       /\ calls'[r][Len(calls'[r])].method = "problem.create")

C11_Witness ==
    \E r, q \in Runs :
        /\ r /= q
        /\ cfg[r].polygon_name = cfg[q].polygon_name
        /\ seen[r] = << >> /\ seen[q] = << >>
        /\ CallsTo(r, "problem.create") /= {}
        /\ CallsTo(q, "problem.create") /= {}
        /\ \A x \in {r, q} : \A i \in {1, 2} :
              ~calls[x][i].resp.raised /\ calls[x][i].resp.value = << >>

\* main(): what the process reports when build() raised, by the handler taken
main_report(r) ==
    IF failure[r] = None THEN None
    ELSE IF failure[r][1].type = "ConfigError" THEN Some("Config error")
         ELSE Some("Build error")

\* The run is a stage test of that one stage.
Tests(r, number) == pc[r] /= "idle" /\ plan[r] = <<number>>

\* C12: the settings stage sends the limits update and, when the definition has
\* a non-empty tags list, then sends the tags call and completes; with tags
\* absent or empty it sends the limits update only.
C12_SettingsLimitsThenTags ==
    \A r \in Runs :
        (Tests(r, 2) /\ Exited(r) /\ ~dry_run[r]
         /\ calls[r] /= << >> /\ ~calls[r][1].resp.raised) =>
            /\ calls[r][1].method = "problem.updateInfo"
            /\ IF cfg[r].tags /= None /\ cfg[r].tags /= << >>
               THEN /\ Len(calls[r]) = 2
                    /\ calls[r][2].params.tags = cfg[r].tags
                    /\ ~calls[r][2].resp.raised => Done(r, 2)
               ELSE Len(calls[r]) = 1 /\ Done(r, 2)

\* C13: the solutions stage sends the save-solution call if and only if exactly
\* one solution carries the main tag; otherwise it fails without any request.
C13_SaveSolutionIffExactlyOneMain ==
    \A r \in Runs :
        (Tests(r, 6) /\ Exited(r) /\ ~dry_run[r]) =>
            LET mains == {i \in DOMAIN cfg[r].solutions : cfg[r].solutions[i] = "MA"}
            IN  IF Cardinality(mains) = 1
                THEN CallsTo(r, "problem.saveSolution") /= {}
                ELSE FailedAt(r, 6) /\ calls[r] = << >>

\* C14: a dry run of the full pipeline over a definition without a main-tagged
\* solution fails, and the failure is reported as a configuration error.
C14_DryRunNoMainIsConfigError ==
    \A r \in Runs :
        (pc[r] /= "idle" /\ plan[r] = BuildStages /\ dry_run[r] /\ Exited(r)
         /\ "solutions" \in DOMAIN cfg[r]
         /\ \A i \in DOMAIN cfg[r].solutions : cfg[r].solutions[i] /= "MA") =>
            /\ exit_status[r] = Some(1)
            /\ main_report(r) = Some("Config error")

\* The repeat counts of the first n generators, summed.
RECURSIVE SumRepeats(_, _)
SumRepeats(gens, n) == IF n = 0 THEN 0 ELSE SumRepeats(gens, n - 1) + gens[n].repeat

\* C15: for every list of generators, with or without explicit commands, the
\* i-th generator's block of test slots is [1 + r1+..+r(i-1), r1+..+ri].
C15_GeneratorSlotRanges ==
    \A r \in Runs :
        Tests(r, 8) =>
            \A k \in DOMAIN locals[r].script :
                LET f == locals[r].script[k]
                IN  f.kind = "list" =>
                        /\ f.from = 1 + SumRepeats(cfg[r].generators, f.gen - 1)
                        /\ f.to = SumRepeats(cfg[r].generators, f.gen)

\* C16: in the generated-tests stage every generator the saved script refers to
\* was uploaded, successfully, before the save-script call; after a failed
\* upload the script is never saved.
C16_UploadBeforeScript ==
    \A r \in Runs :
        (Tests(r, 8) /\ ~dry_run[r]) =>
            \A k \in CallsTo(r, "problem.saveScript") :
                /\ \A i \in DOMAIN calls[r][k].params.source :
                      \E j \in 1..(k - 1) :
                          /\ calls[r][j].method = "problem.saveFile"
                          /\ calls[r][j].params.name =
                                Generator(cfg[r].generators,
                                          calls[r][k].params.source[i].gen).path
                          /\ ~calls[r][j].resp.raised
                /\ \A j \in CallsTo(r, "problem.saveFile") : ~calls[r][j].resp.raised

C16_Witness ==
    \E r \in Runs :
        /\ Tests(r, 8) /\ ~dry_run[r]
        /\ Len(cfg[r].generators) = MaxGenerators
        /\ \E k \in CallsTo(r, "problem.saveScript") :
              Len(calls[r][k].params.source) = MaxGenerators

\* C17: a stage that raised, whatever the exception, left a BuildError carrying
\* the stage's ordinal and title, after its start marker and without its
\* completion marker; a completion marker is printed only for a stage whose
\* body returned.
C17_StageRunnerWraps ==
    \A r \in Runs :
        /\ failure[r] /= None =>
              LET f == failure[r][1]
              IN  /\ f.type = "BuildError"
                  /\ f.title = StageTitle(f.number)
                  /\ Started(r, f.number)
                  /\ ~Done(r, f.number)
                  /\ main_report(r) = Some("Build error")
        /\ \A i \in DOMAIN out[r] :
              out[r][i].kind = "DONE" =>
                  /\ Started(r, out[r][i].number)
                  /\ ~FailedAt(r, out[r][i].number)

C17_Witness ==
    \E r \in Runs :
        /\ Tests(r, 7) /\ Exited(r)
        /\ failure[r] /= None
        /\ failure[r][1].cause.type = "ConfigError"
        /\ Started(r, 7) /\ ~Done(r, 7)

\* C18: resolving a key that is absent from the registry, or marked
\* unconfirmed, raises at once and no request is sent, in a dry run as well;
\* a request that is sent goes to exactly the registered method name.
C18_UnresolvedKeyNeverSent ==
    (probe.op = "call" /\ probe.result /= None) =>
        LET m == probe.methods
            k == probe.key
            res == probe.result[1]
        IN  /\ (k \notin DOMAIN m \/ ~m[k][2]) =>
                  /\ res.raised
                  /\ res.exc.type \in {"KeyError", "RuntimeError"}
                  /\ probe.sent = << >>
            /\ \A i \in DOMAIN probe.sent :
                  k \in DOMAIN m /\ probe.sent[i].method = m[k][1]

C18_Witness ==
    /\ probe.op = "call" /\ probe.result /= None
    /\ probe.dry
    /\ probe.key \in DOMAIN probe.methods
    /\ ~probe.methods[probe.key][2]
    /\ probe.result[1].raised

\* The items are in order: by key, then by value.
Canonical(items) == \A i, j \in DOMAIN items : i < j => ~PairLess(items[j], items[i])

\* C19: the signed parameter list is the (key, value) string pairs sorted by
\* key then value, so for one nonce, timestamp, method and secret every order
\* of the input mapping gives the same canonical string and signature.
C19_PermutationInvariant ==
    (probe.op = "sign" /\ probe.first /= None) =>
        /\ Canonical(probe.first[1].items)
        /\ Canonical(probe.second[1].items)
        /\ probe.change = "order" =>
              /\ probe.first[1].items = probe.second[1].items
              /\ probe.first[1].to_sign = probe.second[1].to_sign
              /\ probe.first[1].api_sig = probe.second[1].api_sig

C19_Witness ==
    /\ probe.op = "sign" /\ probe.first /= None
    /\ probe.change = "order"
    /\ Len(probe.params) = MaxParams
    /\ probe.other /= probe.params
    /\ StrLess(str(probe.params[2].k), str(probe.params[1].k))

\* The value replaced is of the type of the one it replaces.
SameTypes(p, q) == \A i \in DOMAIN p : p[i].v.t = q[i].v.t

OriginalScript(r) ==
    IF /\ calls[r] /= << >>
       /\ calls[r][1].method = "problem.script"
       /\ ~calls[r][1].resp.raised
       /\ NotBlank(calls[r][1].resp.value)
    THEN calls[r][1].resp.value
    ELSE None

\* C23: in the manual-tests stage, a non-empty remote script is first
\* overwritten with a blank one, then the samples are saved in input order
\* with test indices 1..n, then the original script is saved back, and only
\* if every sample save succeeded: after a failing sample save the last
\* script saved is the blank one. Without a script to keep, and in a dry run,
\* no script is saved at all.
C23_BlankSamplesRestore ==
    \A r \in Runs :
        Tests(r, 7) =>
            LET log == calls[r]
                n == Len(cfg[r].samples)
                orig == OriginalScript(r)
                scripts == CallsTo(r, "problem.saveScript")
                tests == CallsTo(r, "problem.saveTest")
                \* requests before the first save_test
                lead == IF orig = None THEN 1 ELSE 2
            IN  /\ dry_run[r] => log = << >> /\ pc[r] \notin {"blank", "restore"}
                /\ orig = None => scripts = {}
                /\ (orig /= None /\ Len(log) >= 2) =>
                      /\ log[2].method = "problem.saveScript"
                      /\ log[2].params.source = " "
                /\ \A i \in tests :
                      /\ i > lead /\ i - lead <= n
                      /\ log[i].params.testIndex = i - lead
                      /\ log[i].params.testInput = cfg[r].samples[i - lead].in[1]
                      /\ \A j \in 1..(i - 1) : ~log[j].resp.raised
                /\ \A k \in scripts :
                      k > 2 =>
                          /\ k = n + 3
                          /\ log[k].params.source = orig[1]
                          /\ \A j \in 1..(k - 1) : ~log[j].resp.raised
                          /\ tests = 3..(n + 2)
                /\ (Exited(r) /\ failure[r] = None /\ orig /= None) =>
                      Len(log) = n + 3
                /\ (Exited(r) /\ \E i \in tests : log[i].resp.raised) =>
                      \A k \in scripts : log[k].params.source = " "

C23_Witness ==
    \E r \in Runs :
        /\ Tests(r, 7) /\ Exited(r) /\ ~dry_run[r]
        /\ OriginalScript(r) /= None
        /\ Len(cfg[r].samples) = MaxSamples
        /\ Len(calls[r]) = MaxSamples + 2
        /\ calls[r][Len(calls[r])].method = "problem.saveTest"
        /\ calls[r][Len(calls[r])].resp.raised
        /\ CallsTo(r, "problem.saveScript") = {2}

\* The body's first word after any whitespace is "{".
Opens(text) ==
    \E i \in DOMAIN text : text[i] = "{" /\ \A k \in 1..(i - 1) : text[k] = " "

\* C21: a response with a JSON content type, or whose body begins with "{",
\* is read as an envelope whatever the HTTP status: status "OK" gives the
\* result (an empty one if absent), any other status a failure carrying the
\* comment (the envelope itself if absent). Any other response is a failure
\* carrying status code and body when the HTTP status is a failure, and
\* otherwise the body text as the value. (A body read as an envelope that is
\* not one is a failure.)
C21_ResponseDecisionTable ==
    (probe.op = "response" /\ probe.outcome /= None) =>
        LET r == probe.r
            res == probe.outcome[1]
            json_type == r.ctype \in {<<"application/json">>,
                                      <<"Application/JSON", ";", "charset=utf-8">>}
            failure_status == r.status_code \in {404, 500}
        IN  IF r.envelope /= None
            THEN LET e == r.envelope[1]
                 IN  IF e.status = Some("OK")
                     THEN /\ ~res.raised
                          /\ res.value = Some(IF e.result = None THEN <<"{", "}">>
                                               ELSE <<e.result[1]>>)
                     ELSE /\ res.raised
                          /\ res.exc.type = "RuntimeError"
                          /\ res.exc.msg = IF e.comment = None THEN EnvelopeText(0, e)
                                           ELSE <<e.comment[1]>>
            ELSE IF json_type \/ Opens(r.text)
                 THEN res.raised
                 ELSE IF failure_status
                      THEN /\ res.raised
                           /\ res.exc.type = "RuntimeError"
                           /\ res.exc.msg = <<"HTTP", StatusWord(r.status_code)>> \o r.text
                      ELSE /\ ~res.raised
                           /\ res.value = Some(r.text)

C21_Witness ==
    /\ probe.op = "response" /\ probe.outcome /= None
    /\ probe.r.ctype = <<"text/html">>
    /\ probe.r.status_code = 500
    /\ probe.r.envelope /= None
    /\ probe.r.envelope[1].status = Some("OK")
    /\ probe.r.envelope[1].result = None
    /\ probe.r.text[1] = " "
    /\ ~probe.outcome[1].raised

\* The key of a section is not as validation requires.
BadKey(doc, section, n) ==
    doc[section].keys[Required(section)[n].key] /= Required(section)[n].type

\* C22: validation reports every problem of the document, not the first only:
\* the run of a document with problems ends in one ConfigError whose report
\* has a complaint for each of them (for a missing problem.timelimit_ms and a
\* missing files.checker both), before any stage has started and without any
\* request.
C22_ValidationCollectsAll ==
    \A r \in Runs :
        (probe.op = "config" /\ pc[r] /= "idle") =>
            LET doc == probe.doc
                bad == \E i \in DOMAIN Sections :
                           \/ ~doc[Sections[i]].present
                           \/ \E n \in DOMAIN Required(Sections[i]) :
                                  BadKey(doc, Sections[i], n)
            IN  IF bad
                THEN /\ Exited(r)
                     /\ failure[r] /= None
                     /\ failure[r][1].type = "ConfigError"
                     /\ main_report(r) = Some("Config error")
                     /\ out[r] = << >>
                     /\ calls[r] = << >>
                     /\ \A i \in DOMAIN Sections :
                           \A n \in DOMAIN Required(Sections[i]) :
                               LET key == Required(Sections[i])[n].key
                                   report == failure[r][1].cause.msg
                               IN  /\ BadKey(doc, Sections[i], n) =>
                                         Contains(report, <<"for", Sections[i], key>>)
                                   /\ doc[Sections[i]].keys[key] = "absent" =>
                                         Contains(report, <<"Missing", Sections[i], key>>)
                ELSE failure[r] /= None => failure[r][1].type /= "ConfigError"

C22_Witness ==
    \E r \in Runs :
        /\ probe.op = "config" /\ Exited(r)
        /\ probe.doc["files"].present
        /\ probe.doc["problem"].keys["timelimit_ms"] = "absent"
        /\ probe.doc["files"].keys["checker"] = "absent"
        /\ probe.doc["tests"].keys["samples_path"] = "str"
        /\ failure[r] /= None
        /\ Contains(failure[r][1].cause.msg, <<"Missing", "problem", "timelimit_ms">>)
        /\ Contains(failure[r][1].cause.msg, <<"Missing", "files", "checker">>)

====
